---- MODULE Spec2Model ----
(***************************************************************************)
(* Model of the 6-hour slot reporting subsystem of the hospital dashboard: *)
(* the slot calendar, the metrics aggregator (update6HourReport), the      *)
(* scheduled report (generateScheduledReport), the backfill engine         *)
(* (backfillMissingSlots) and the scheduler hook (useScheduledReporting),  *)
(* over a Firestore-like store of patients and slot reports.               *)
(*                                                                         *)
(* Time is the local wall clock in whole hours since day 0, 00:00.  A slot *)
(* identifier "YYYY-MM-DD_HH" is the pair <<day, hour>>; string order of   *)
(* the identifiers is the lexicographic order of the pairs.  A document is *)
(* a record whose DOMAIN is the set of fields it holds, so that a merge    *)
(* write keeps the fields it does not name.  A ratio is a pair <<n, d>> in *)
(* lowest terms; d = 0 stands for NaN (n = 0) or Infinity.                 *)
(***************************************************************************)
EXTENDS Integers, Sequences, FiniteSets, TLC

\* ------------------------------------------------------------------ bounds
MaxSlot == 5
MaxPatients == 1
MaxBeds == 2
MaxOps == 3
MaxFailures == 1
MaxRoster == 2
MaxSchedSlot == 2
MaxLen == 3
CalHorizon == 47

\* -------------------------------------------------------- program constants
SIX_HOURS_MS == 6
DefaultEmergencyCapacity == 10
FacilityId == "H-101"
NoFacility == ""

VARIABLES now, reports, patients, facility, uiPass, bf, comp, chain, ops, fails, csv

vars == <<now, reports, patients, facility, uiPass, bf, comp, chain, ops, fails, csv>>

\* ------------------------------------------------------------ slot calendar
SlotHours == {0, 6, 12, 18}

getHours(d) == d % 24

localDateStr(d) == d \div 24

\* thresholds that put a boundary hour into the slot that ends there
slotOfHourInclusive(h) ==
    IF h <= 6 THEN 0 ELSE IF h <= 12 THEN 6 ELSE IF h <= 18 THEN 12 ELSE 18

slotOfHour(h) == IF h < 6 THEN 0 ELSE IF h < 12 THEN 6 ELSE IF h < 18 THEN 12 ELSE 18

getCurrent6HourSlot == <<localDateStr(now), slotOfHour(getHours(now))>>

\* hourPart of an identifier that has no '_': slotId.split('_')[1] is undefined
NoHour == -1

\* getTime() of an Invalid Date
NaN == -2

slotIdToDate(slotId) ==
    IF slotId[2] = NoHour THEN NaN ELSE slotId[1] * 24 + slotId[2]

\* d.getTime() + ms
AddMs(d, ms) == IF d = NaN THEN NaN ELSE d + ms

\* a < b on numbers: false as soon as one side is NaN
Earlier(a, b) == a # NaN /\ b # NaN /\ a < b

dateToSlotId(d) == <<localDateStr(d), slotOfHour(getHours(d))>>

slotIdFor(d) == <<localDateStr(d), slotOfHour(getHours(d))>>

\* the first boundary at or after d
nextSlotBoundaryAtOrAfter(d) == ((d + SIX_HOURS_MS - 1) \div SIX_HOURS_MS) * SIX_HOURS_MS

nextSlotBoundary(d) ==
    LET nextHour == ((getHours(d) \div 6) + 1) * 6
    IN  IF nextHour >= 24 THEN (localDateStr(d) + 1) * 24
        ELSE localDateStr(d) * 24 + nextHour

\* a.id.localeCompare(b.id) < 0; a date-only identifier <<date, NoHour>> is a
\* proper prefix of the slot identifiers of its date and sorts before them
IdLess(a, b) == a[1] < b[1] \/ (a[1] = b[1] /\ a[2] < b[2])

LastId(ids) == CHOOSE a \in ids : \A b \in ids : b = a \/ IdLess(b, a)

\* ---------------------------------------------------------------- documents
Has(doc, f) == f \in DOMAIN doc

\* a merge that adds to the day counters instead of replacing them
MergeDocAdding(old, new) ==
    [f \in DOMAIN old \cup DOMAIN new |->
        IF f \notin DOMAIN new THEN old[f]
        ELSE IF f \in DOMAIN old /\ f \in {"newAdmissions", "discharges"} THEN old[f] + new[f]
        ELSE new[f]]

\* a write that replaces the stored document
MergeDocReplacing(old, new) == new

\* setDoc(ref, data, { merge: true }) on the stored document
MergeDoc(old, new) ==
    [f \in DOMAIN old \cup DOMAIN new |-> IF f \in DOMAIN new THEN new[f] ELSE old[f]]

\* the collection after setDoc(doc(.., id), data, { merge })
SetDoc(coll, id, data, merge) ==
    [k \in DOMAIN coll \cup {id} |->
        IF k # id THEN coll[k]
        ELSE IF merge /\ id \in DOMAIN coll THEN MergeDoc(coll[id], data)
        ELSE data]

Without(doc, fields) == [f \in DOMAIN doc \ fields |-> doc[f]]

\* getDoc(doc(.., id)): the snapshot with exists() and data()
GetDoc(coll, id) ==
    IF id \in DOMAIN coll THEN [exists |-> TRUE, data |-> coll[id]]
    ELSE [exists |-> FALSE]

\* ------------------------------------------------------------------- ratios
Abs(n) == IF n < 0 THEN -n ELSE n

RECURSIVE GCD(_, _)
GCD(a, b) == IF b = 0 THEN a ELSE GCD(b, a % b)

Frac(n, d) ==
    IF d = 0 THEN <<n, 0>>
    ELSE LET g == GCD(Abs(n), Abs(d))
             s == IF d < 0 THEN -1 ELSE 1
         IN  <<s * (n \div g), s * (d \div g)>>

Zero == <<0, 1>>

\* f > a/b for a finite ratio f and positive b; Infinity exceeds, NaN does not
FracGT(f, a, b) ==
    IF f[2] = 0 THEN f[1] > 0 ELSE f[1] * b > a * f[2]

\* Math.min(1, f)
FracMin1(f) == IF FracGT(f, 1, 1) THEN <<1, 1>> ELSE f

\* (a * 0.4) + (b * 0.3) + (c * 0.3)
Weighted(a, b, c) ==
    Frac(4 * a[1] * b[2] * c[2] + 3 * b[1] * a[2] * c[2] + 3 * c[1] * a[2] * b[2],
         10 * a[2] * b[2] * c[2])

\* ----------------------------------------------------------------- patients
\* The patients collection is a bag: a function from patient document to the
\* number of documents with that content.
NoPatients == << >>

BagAdd(B, p) ==
    [q \in DOMAIN B \cup {p} |->
        IF q \in DOMAIN B THEN B[q] + (IF q = p THEN 1 ELSE 0) ELSE 1]

BagRemove(B, p) ==
    [q \in {r \in DOMAIN B : r # p \/ B[r] > 1} |-> IF q = p THEN B[q] - 1 ELSE B[q]]

RECURSIVE SumOver(_, _)
SumOver(B, S) ==
    IF S = {} THEN 0
    ELSE LET p == CHOOSE q \in S : TRUE IN B[p] + SumOver(B, S \ {p})

BagSize(B) == SumOver(B, DOMAIN B)

\* patients.filter(pred).length, for the set S of the documents that satisfy pred
CountWhere(B, S) == SumOver(B, S \cap DOMAIN B)

\* ------------------------------------------------------- metrics aggregator
\* active from the admission date on, whatever the discharge
activeAtAdmitted(p, dateThreshold) ==
    Has(p, "admissionDate") /\ p.admissionDate * 24 <= dateThreshold

\* getActiveAtSlot(dateThreshold) of update6HourReport
activeAt(p, dateThreshold) ==
    /\ Has(p, "admissionDate")
    /\ p.admissionDate * 24 <= dateThreshold
    /\ \/ ~Has(p, "dischargeDate")
       \/ p.status # "discharged"
       \/ p.dischargeDate * 24 + 24 > dateThreshold

\* the division without its totalBeds > 0 guard
bedUtilizationUnguarded(occupiedBeds, totalBeds) == Frac(occupiedBeds, totalBeds)

bedUtilizationOf(occupiedBeds, totalBeds) ==
    IF totalBeds > 0 THEN Frac(occupiedBeds, totalBeds) ELSE Zero

icuStressIndexOf(icuOccupied, icuBeds) ==
    IF icuBeds > 0 THEN Frac(icuOccupied, icuBeds) ELSE Zero

\* prevSnap is the snapshot of the preceding slot's report: prevData is its
\* data when it exists and null otherwise
fluGrowthRateOf(fluCases, prevSnap) ==
    IF prevSnap.exists /\ Has(prevSnap.data, "fluCases") /\ prevSnap.data.fluCases > 0
    THEN Frac(fluCases - prevSnap.data.fluCases, prevSnap.data.fluCases)
    ELSE Zero

\* steps 3-8 of update6HourReport: the payload of its setDoc
reportPayload(currentSlotId, targetSlotDateStr, pats, facilityData, prevSnap, writeTime) ==
    LET slotTimestamp == slotIdToDate(currentSlotId)
        totalBeds == facilityData.totalBeds
        icuBeds == facilityData.icuBeds
        emergencyCapacity ==
            IF facilityData.emergencyCapacity = 0 THEN DefaultEmergencyCapacity
            ELSE facilityData.emergencyCapacity
        active(p) == activeAt(p, slotTimestamp)
        icu(p) == active(p) /\ p.icuRequired
        diag(p, dg) == active(p) /\ p.diagnosis = dg
        flu(p) == diag(p, "flu")
        dengue(p) == diag(p, "dengue")
        covid(p) == diag(p, "covid")
        critical(p) == active(p) /\ p.status = "critical"
        admittedOn(p) == Has(p, "admissionDate") /\ p.admissionDate = targetSlotDateStr
        dischargedOn(p) ==
            p.status = "discharged" /\ Has(p, "dischargeDate")
            /\ p.dischargeDate = targetSlotDateStr
        occupiedBeds == CountWhere(pats, {q \in DOMAIN pats : active(q)})
        icuOccupied == CountWhere(pats, {q \in DOMAIN pats : icu(q)})
        fluCases == CountWhere(pats, {q \in DOMAIN pats : flu(q)})
        emergencyCases == CountWhere(pats, {q \in DOMAIN pats : critical(q)})
        bedUtilization == bedUtilizationOf(occupiedBeds, totalBeds)
        icuStressIndex == icuStressIndexOf(icuOccupied, icuBeds)
        normalizedEmergency == Frac(emergencyCases, emergencyCapacity)
        fluGrowthRate == fluGrowthRateOf(fluCases, prevSnap)
    IN  [facilityId |-> FacilityId,
         slotId |-> currentSlotId,
         timestamp |-> writeTime,
         date |-> targetSlotDateStr,
         slot |-> currentSlotId[2],
         occupiedBeds |-> occupiedBeds,
         icuOccupied |-> icuOccupied,
         fluCases |-> fluCases,
         dengueCases |-> CountWhere(pats, {q \in DOMAIN pats : dengue(q)}),
         covidCases |-> CountWhere(pats, {q \in DOMAIN pats : covid(q)}),
         emergencyCases |-> emergencyCases,
         newAdmissions |-> CountWhere(pats, {q \in DOMAIN pats : admittedOn(q)}),
         discharges |-> CountWhere(pats, {q \in DOMAIN pats : dischargedOn(q)}),
         totalBeds |-> totalBeds,
         icuBeds |-> icuBeds,
         availableBeds |-> IF totalBeds - occupiedBeds > 0 THEN totalBeds - occupiedBeds ELSE 0,
         bedUtilization |-> bedUtilization,
         icuStressIndex |-> icuStressIndex,
         fluGrowthRate |-> fluGrowthRate,
         riskScore |-> Weighted(icuStressIndex, bedUtilization, FracMin1(normalizedEmergency)),
         overCapacity |-> FracGT(bedUtilization, 85, 100),
         icuCritical |-> FracGT(icuStressIndex, 9, 10),
         diseaseSpike |-> FracGT(fluGrowthRate, 4, 10)]

\* ------------------------------------------- update6HourReport, step by step
\* One call of update6HourReport is a pass.  Its position is pc: the store
\* operation it is waiting for, or "resolved" / "rejected" once its promise
\* has settled; failed tells whether a store operation failed on the way.
Idle == [pc |-> "idle"]

Settled(pc, failed) == [pc |-> pc, failed |-> failed]

InFlight(p) == p.pc \notin {"idle", "resolved", "rejected"}

\* the synchronous prefix: target is << >> (no targetDateStr) or <<date>>
update6HourReport(target) ==
    LET slotId == getCurrent6HourSlot
        targetSlotDateStr == IF target # << >> THEN target[1] ELSE slotId[1]
        currentSlotId == IF target # << >> THEN <<target[1], slotId[2]>> ELSE slotId
    IN  [pc |-> "getPatients", slotId |-> currentSlotId, date |-> targetSlotDateStr]

\* a catch block that rethrows
aggRethrow == Settled("rejected", TRUE)

\* what the catch block of update6HourReport makes of a failed store operation
aggCatch == Settled("resolved", TRUE)

prevSlotIdOf(currentSlotId) == dateToSlotId(slotIdToDate(currentSlotId) - SIX_HOURS_MS)

\* the outcomes of the store operation pass p is waiting for: the pass after
\* it and the reports collection after it
AggOutcomes(p) ==
    {[pass |-> aggCatch, reports |-> reports, fail |-> TRUE]} \cup
    (CASE p.pc = "getPatients" ->
            {[pass |-> [pc |-> "getFacility", slotId |-> p.slotId, date |-> p.date,
                        patients |-> patients],
              reports |-> reports, fail |-> FALSE]}
      [] p.pc = "getFacility" ->
            {[pass |-> [pc |-> "getPrev", slotId |-> p.slotId, date |-> p.date,
                        patients |-> p.patients, facility |-> facility],
              reports |-> reports, fail |-> FALSE]}
      [] p.pc = "getPrev" ->
            {[pass |-> [pc |-> "setDoc", slotId |-> p.slotId, date |-> p.date,
                        patients |-> p.patients, facility |-> p.facility,
                        prev |-> GetDoc(reports, prevSlotIdOf(p.slotId))],
              reports |-> reports, fail |-> FALSE]}
      [] p.pc = "setDoc" ->
            {[pass |-> Settled("resolved", FALSE),
              reports |-> SetDoc(reports, p.slotId,
                                 reportPayload(p.slotId, p.date, p.patients, p.facility,
                                               p.prev, now),
                                 TRUE),
              fail |-> FALSE]})

\* ------------------------------------------ generateScheduledReport, stepwise
\* pc "update": awaiting update6HourReport; pc "mark": awaiting the setDoc of
\* { scheduledRun: true }, which is outside any try block
\* a scheduled report made for the slot before the one asked for
generateScheduledReportBefore(slotId) ==
    [pc |-> "update", slotId |-> prevSlotIdOf(slotId),
     pass |-> update6HourReport(<<prevSlotIdOf(slotId)[1]>>)]

generateScheduledReport(slotId) ==
    [pc |-> "update", slotId |-> slotId, pass |-> update6HourReport(<<slotId[1]>>)]

GenOutcomes(g) ==
    IF g.pc = "update"
    THEN {[gen |-> IF o.pass.pc = "resolved"
                   THEN [pc |-> "mark", slotId |-> g.slotId, failed |-> o.pass.failed]
                   ELSE IF o.pass.pc = "rejected" THEN Settled("rejected", TRUE)
                   ELSE [g EXCEPT !.pass = o.pass],
           reports |-> o.reports, fail |-> o.fail] : o \in AggOutcomes(g.pass)}
    ELSE {[gen |-> Settled("resolved", g.failed),
           reports |-> SetDoc(reports, g.slotId, [scheduledRun |-> TRUE], TRUE),
           fail |-> FALSE],
          [gen |-> Settled("rejected", TRUE), reports |-> reports, fail |-> TRUE]}

\* ------------------------------------------------------ backfillMissingSlots
BackfillDone(failed) == [pc |-> "done", failed |-> failed]

\* the synchronous prefix of backfillMissingSlots
backfillMissingSlots == [pc |-> "getDocs", currentSlotId |-> getCurrent6HourSlot]

\* the document backfill writes for missingSlotId (lastSlotDate is its window start)
backfillPayload(lastKnownData, missingSlotId, lastSlotDate) ==
    MergeDoc(Without(lastKnownData, {"timestamp", "slotId", "autoFilled", "scheduledRun"}),
             [facilityId |-> FacilityId,
              slotId |-> missingSlotId,
              date |-> missingSlotId[1],
              slot |-> missingSlotId[2],
              autoFilled |-> TRUE,
              scheduledRun |-> FALSE,
              timestamp |-> lastSlotDate])

\* lastDoc: the document the gap walk starts from
lastDocId(ids) == LastId(ids)

\* The while loop and what follows it, run up to the next store operation:
\* the position backfill is in when it next waits.
RECURSIVE backfillLoop(_, _, _, _, _)
backfillLoop(currentSlotId, sortedDocs, existingSlotIds, lastSlotDate, lastKnownData) ==
    IF Earlier(AddMs(lastSlotDate, SIX_HOURS_MS), slotIdToDate(currentSlotId))
    THEN LET next == lastSlotDate + SIX_HOURS_MS
             missingSlotId == dateToSlotId(next)
         IN  IF missingSlotId \in existingSlotIds
             THEN backfillLoop(currentSlotId, sortedDocs, existingSlotIds, next,
                               IF missingSlotId \in DOMAIN sortedDocs
                               THEN sortedDocs[missingSlotId] ELSE lastKnownData)
             ELSE [pc |-> "setDoc",
                   currentSlotId |-> currentSlotId,
                   sortedDocs |-> sortedDocs,
                   existingSlotIds |-> existingSlotIds,
                   lastSlotDate |-> next,
                   lastKnownData |-> lastKnownData,
                   missingSlotId |-> missingSlotId,
                   payload |-> backfillPayload(lastKnownData, missingSlotId, next)]
    ELSE IF currentSlotId \notin existingSlotIds
         THEN [pc |-> "gen", currentSlotId |-> currentSlotId,
               gen |-> generateScheduledReport(currentSlotId)]
         ELSE BackfillDone(FALSE)

\* the outcomes of the store operation backfill b is waiting for
BackfillOutcomes(b) ==
    CASE b.pc = "getDocs" ->
            {[bf |-> BackfillDone(TRUE), reports |-> reports, fail |-> TRUE],
             [bf |-> IF DOMAIN reports = {}
                     THEN [pc |-> "gen", currentSlotId |-> b.currentSlotId,
                           gen |-> generateScheduledReport(b.currentSlotId)]
                     ELSE LET lastSlotId == lastDocId(DOMAIN reports)
                          IN  backfillLoop(b.currentSlotId, reports, DOMAIN reports,
                                           slotIdToDate(lastSlotId), reports[lastSlotId]),
              reports |-> reports, fail |-> FALSE]}
      [] b.pc = "setDoc" ->
            {[bf |-> BackfillDone(TRUE), reports |-> reports, fail |-> TRUE],
             [bf |-> backfillLoop(b.currentSlotId, b.sortedDocs,
                                  b.existingSlotIds \cup {b.missingSlotId},
                                  b.lastSlotDate, b.payload),
              reports |-> SetDoc(reports, b.missingSlotId, b.payload, FALSE),
              fail |-> FALSE]}
      [] b.pc = "gen" ->
            {[bf |-> IF o.gen.pc = "resolved" THEN BackfillDone(o.gen.failed)
                     ELSE IF o.gen.pc = "rejected" THEN BackfillDone(TRUE)
                     ELSE [b EXCEPT !.gen = o.gen],
              reports |-> o.reports, fail |-> o.fail] : o \in GenOutcomes(b.gen)}

\* ------------------------------------------------ the dashboard and its hooks
\* comp is the dashboard component that uses useBackfillReports and
\* useScheduledReporting: whether it is mounted, its facilityId prop, the refs
\* mountedRef, timeoutRef and hasRunRef of its latest instance, and whether
\* the scheduler effect returned a cleanup.  chain is the runAndScheduleNext
\* chain the scheduler effect started: awaiting generateScheduledReport
\* ("gen"), or waiting for its timeout ("timer").
NoChain == [pc |-> "none"]

\* runAndScheduleNext(targetSlotId) up to its first await
runAndScheduleNext(mountedRef, targetSlotId) ==
    IF ~mountedRef THEN NoChain
    ELSE [pc |-> "gen", gen |-> generateScheduledReport(targetSlotId)]

\* runAndScheduleNext after its await
afterGenerate(mountedRef) ==
    IF ~mountedRef THEN NoChain
    ELSE [pc |-> "timer", deadline |-> nextSlotBoundary(now)]

\* clearTimeout(timeoutRef.current) in the cleanup of the scheduler effect
cleanupChain(timeoutRef, c) == IF timeoutRef # "null" /\ c.pc = "timer" THEN NoChain ELSE c

\* the body of the two effects for facilityId f, after any cleanup: the refs
\* before it are timeoutRef and hasRun, the chain before it chainBefore
RunEffects(f, timeoutRef, hasRun, chainBefore) ==
    /\ comp' = [alive |-> TRUE,
                facilityId |-> f,
                mountedRef |-> TRUE,
                timeoutRef |-> timeoutRef,
                cleanup |-> f # NoFacility,
                hasRun |-> IF f # NoFacility THEN hasRun \cup {f} ELSE hasRun]
    /\ chain' = IF f = NoFacility THEN chainBefore
                ELSE runAndScheduleNext(TRUE, slotIdFor(now))
    /\ bf' = IF f # NoFacility /\ f \notin hasRun THEN backfillMissingSlots ELSE bf

\* ------------------------------------------------------------------ exports
\* csv is the export the user started last: awaiting its aggregation
\* ("update"), or ended with a file, a notice or a rejection
NoExport == [pc |-> "idle"]

\* snap.docs: the documents of a collection in the order of their ids
RECURSIVE docsOf(_)
docsOf(ids) ==
    IF ids = {} THEN << >>
    ELSE LET first == CHOOSE a \in ids : \A b \in ids : a = b \/ IdLess(a, b)
         IN  <<first>> \o docsOf(ids \ {first})

\* a comparator that orders later slot ids first
slotIdAfter(a, b) == IdLess(b, a)

\* String(a).localeCompare(String(b)) < 0 for two slot ids: the ids are
\* zero-padded, so the order of the strings is the order of the pairs
slotIdBefore(a, b) == IdLess(a, b)

\* Array.prototype.sort (stable) of rows by the slot id key(row)
insertRow(sorted, r, kr, keys) ==
    LET k == Cardinality({i \in 1..Len(sorted) : ~slotIdBefore(kr, keys[i])})
    IN  SubSeq(sorted, 1, k) \o <<r>> \o SubSeq(sorted, k + 1, Len(sorted))

RECURSIVE sortBySlotId(_, _)
sortBySlotId(rows, keyField) ==
    IF rows = << >> THEN << >>
    ELSE LET n == Len(rows)
             sorted == sortBySlotId(SubSeq(rows, 1, n - 1), keyField)
         IN  insertRow(sorted, rows[n], rows[n][keyField],
                       [i \in 1..Len(sorted) |-> sorted[i][keyField]])

COLUMNS ==
    <<"slotId", "fluCases", "newAdmissions", "occupiedBeds", "avgTreatmentDays",
      "icuBeds", "updatedAt", "discharges", "icuOccupied", "emergencyCases",
      "dengueCases", "covidCases", "facilityId", "date", "totalBeds", "slot",
      "timestamp", "bedUtilization", "icuStressIndex", "riskScore">>

\* one cell of the raw export: empty for a missing value, else the value (its
\* text is escape(String(val)), see the CSV text section)
cellOf(row, col) == IF Has(row, col) THEN <<row[col]>> ELSE << >>

\* exportCSV after its getDocs of the reports
rawExport(coll) ==
    IF DOMAIN coll = {} THEN [pc |-> "notice", text |-> "No reports available to export."]
    ELSE LET docs == docsOf(DOMAIN coll)
             rows == sortBySlotId([i \in 1..Len(docs) |->
                                      MergeDoc([slotId |-> docs[i]], coll[docs[i]])],
                                  "slotId")
         IN  [pc |-> "file", kind |-> "raw", header |-> COLUMNS,
              rows |-> [i \in 1..Len(rows) |->
                           [c \in 1..Len(COLUMNS) |-> cellOf(rows[i], COLUMNS[c])]]]

FEATURE_COLUMNS ==
    <<"hourSlot", "dayOfWeek", "occupiedBeds", "icuOccupied", "fluCases",
      "dengueCases", "covidCases", "emergencyCases", "newAdmissions", "discharges",
      "totalBeds", "icuBeds", "bedUtilization", "icuStressIndex", "fluGrowthRate",
      "riskScore">>

\* new Date(datePart).getDay(): day 0 is taken to be a Thursday
getDay(d) == (d + 4) % 7

\* data.f || 0
orZero(data, f) == IF Has(data, f) THEN data[f] ELSE 0

\* (data.f || 0).toFixed(4), in ten-thousandths
toFixed4(data, f) ==
    LET r == IF Has(data, f) THEN data[f] ELSE Zero
        q == (2 * 10000 * Abs(r[1]) + r[2]) \div (2 * r[2])
    IN  IF r[1] < 0 THEN 0 - q ELSE q

\* one line of the feature export
featureRow(id, data) ==
    <<id[2], getDay(id[1]),
      orZero(data, "occupiedBeds"), orZero(data, "icuOccupied"), orZero(data, "fluCases"),
      orZero(data, "dengueCases"), orZero(data, "covidCases"),
      orZero(data, "emergencyCases"), orZero(data, "newAdmissions"),
      orZero(data, "discharges"), orZero(data, "totalBeds"), orZero(data, "icuBeds"),
      toFixed4(data, "bedUtilization"), toFixed4(data, "icuStressIndex"),
      toFixed4(data, "fluGrowthRate"), toFixed4(data, "riskScore")>>

\* exportMLCSV after its getDocs of the reports
mlExport(coll) ==
    IF DOMAIN coll = {} THEN [pc |-> "notice", text |-> "No data for ML export."]
    ELSE LET docs == docsOf(DOMAIN coll)
             rowsWithId == sortBySlotId([i \in 1..Len(docs) |->
                                            [id |-> docs[i], data |-> coll[docs[i]]]],
                                        "id")
         IN  [pc |-> "file", kind |-> "ml", header |-> FEATURE_COLUMNS,
              rows |-> [i \in 1..Len(rowsWithId) |->
                           featureRow(rowsWithId[i].id, rowsWithId[i].data)]]

\* ------------------------------------------------------------------ actions
\* a store operation fails (fail) or not; fails counts the failures so far
StoreFailure(fail) ==
    /\ fail => fails < MaxFailures
    /\ fails' = IF fail THEN fails + 1 ELSE fails

Forms ==
    {[status |-> "admitted", icuRequired |-> FALSE, diagnosis |-> "flu"],
     [status |-> "critical", icuRequired |-> TRUE, diagnosis |-> "other"]}

AdmissionDates ==
    {d \in {localDateStr(now) - 1, localDateStr(now)} : d >= 0}

\* the wall clock moves to the next slot
Tick ==
    /\ (now + SIX_HOURS_MS) \div SIX_HOURS_MS <= MaxSlot
    /\ now' = now + SIX_HOURS_MS
    /\ UNCHANGED <<reports, patients, facility, uiPass, bf, comp, chain, ops, fails, csv>>

\* AddPatientModal.handleSave, on the success path of addDoc
AddPatient ==
    /\ ops < MaxOps
    /\ ops' = ops + 1
    /\ BagSize(patients) < MaxPatients
    /\ ~InFlight(uiPass)
    /\ \E form \in Forms, admissionDate \in AdmissionDates :
          /\ patients' = BagAdd(patients,
                                [admissionDate |-> admissionDate, status |-> form.status,
                                 icuRequired |-> form.icuRequired,
                                 diagnosis |-> form.diagnosis])
          /\ uiPass' = update6HourReport(<<admissionDate>>)
    /\ UNCHANGED <<now, reports, facility, bf, comp, chain, fails, csv>>

\* AddPatientModal.handleSave with any date typed into the date input: the
\* day before, today or the day after
AddPatientAnyDate ==
    /\ ops < MaxOps
    /\ ops' = ops + 1
    /\ BagSize(patients) < MaxPatients
    /\ ~InFlight(uiPass)
    /\ \E form \in Forms, admissionDate \in AdmissionDates \cup {localDateStr(now) + 1} :
          /\ patients' = BagAdd(patients,
                                [admissionDate |-> admissionDate, status |-> form.status,
                                 icuRequired |-> form.icuRequired,
                                 diagnosis |-> form.diagnosis])
          /\ uiPass' = update6HourReport(<<admissionDate>>)
    /\ UNCHANGED <<now, reports, facility, bf, comp, chain, fails, csv>>

\* BedDetailsModal.handleDischarge, on the success path of updateDoc
Discharge ==
    /\ ops < MaxOps
    /\ ops' = ops + 1
    /\ ~InFlight(uiPass)
    /\ \E p \in DOMAIN patients :
          /\ p.status # "discharged"
          /\ patients' = BagAdd(BagRemove(patients, p), [p EXCEPT !.status = "discharged"])
          /\ uiPass' = update6HourReport(<< >>)
    /\ UNCHANGED <<now, reports, facility, bf, comp, chain, fails, csv>>

\* exportCSV up to its await of update6HourReport(facilityId)
ExportCSV ==
    /\ ops < MaxOps
    /\ ops' = ops + 1
    /\ ~InFlight(uiPass)
    /\ uiPass' = update6HourReport(<< >>)
    /\ csv' = [pc |-> "update"]
    /\ UNCHANGED <<now, reports, patients, facility, bf, comp, chain, fails>>

\* exportCSV after its await of update6HourReport: the getDocs of the
\* reports and the file or the notice; a failed getDocs rejects the export
ExportCSVRead ==
    /\ csv.pc = "update"
    /\ ~InFlight(uiPass)
    /\ \E fail \in BOOLEAN :
          /\ StoreFailure(fail)
          /\ csv' = IF fail THEN [pc |-> "rejected"] ELSE rawExport(reports)
    /\ UNCHANGED <<now, reports, patients, facility, uiPass, bf, comp, chain, ops>>

\* exportMLCSV: its getDocs of the reports and the file or the notice
ExportMLCSV ==
    /\ ops < MaxOps
    /\ ops' = ops + 1
    /\ \E fail \in BOOLEAN :
          /\ StoreFailure(fail)
          /\ csv' = IF fail THEN [pc |-> "rejected"] ELSE mlExport(reports)
    /\ UNCHANGED <<now, reports, patients, facility, uiPass, bf, comp, chain>>

\* one store operation of the update6HourReport a UI handler started
UiPassStep ==
    /\ InFlight(uiPass)
    /\ \E o \in AggOutcomes(uiPass) :
          /\ StoreFailure(o.fail)
          /\ uiPass' = o.pass
          /\ reports' = o.reports
    /\ UNCHANGED <<now, patients, facility, bf, comp, chain, ops, csv>>

\* one store operation of backfillMissingSlots
BackfillStep ==
    /\ bf.pc \in {"getDocs", "setDoc", "gen"}
    /\ \E o \in BackfillOutcomes(bf) :
          /\ StoreFailure(o.fail)
          /\ bf' = o.bf
          /\ reports' = o.reports
    /\ UNCHANGED <<now, patients, facility, uiPass, comp, chain, ops, csv>>

\* a new dashboard instance mounts with facilityId f (fresh refs)
Mount ==
    /\ ops < MaxOps
    /\ ops' = ops + 1
    /\ ~comp.alive
    /\ chain.pc = "none"
    /\ bf.pc \in {"idle", "done"}
    /\ \E f \in {NoFacility, FacilityId} : RunEffects(f, "null", {}, chain)
    /\ UNCHANGED <<now, reports, patients, facility, uiPass, fails, csv>>

\* the facilityId prop changes: cleanup of the old effect, then the new effect
ChangeFacility ==
    /\ ops < MaxOps
    /\ ops' = ops + 1
    /\ comp.alive
    /\ \E f \in {NoFacility, FacilityId} \ {comp.facilityId} :
          LET cleaned == IF comp.cleanup THEN cleanupChain(comp.timeoutRef, chain) ELSE chain
              timeoutRef == IF comp.cleanup THEN "null" ELSE comp.timeoutRef
          IN  /\ f # NoFacility => cleaned.pc = "none"
              /\ RunEffects(f, timeoutRef, comp.hasRun, cleaned)
    /\ UNCHANGED <<now, reports, patients, facility, uiPass, fails, csv>>

\* the dashboard unmounts: the cleanup of the current effect, if it returned one
Unmount ==
    /\ comp.alive
    /\ comp' = IF comp.cleanup
               THEN [comp EXCEPT !.alive = FALSE, !.mountedRef = FALSE, !.timeoutRef = "null"]
               ELSE [comp EXCEPT !.alive = FALSE]
    /\ chain' = IF comp.cleanup THEN cleanupChain(comp.timeoutRef, chain) ELSE chain
    /\ UNCHANGED <<now, reports, patients, facility, uiPass, bf, ops, fails, csv>>

\* one store operation of the scheduled run; after the last one the rest of
\* runAndScheduleNext: the liveness check and setTimeout
ChainStep ==
    /\ chain.pc = "gen"
    /\ \E o \in GenOutcomes(chain.gen) :
          /\ StoreFailure(o.fail)
          /\ reports' = o.reports
          /\ chain' = IF o.gen.pc = "resolved" THEN afterGenerate(comp.mountedRef)
                      ELSE IF o.gen.pc = "rejected" THEN NoChain
                      ELSE [pc |-> "gen", gen |-> o.gen]
          /\ comp' = IF o.gen.pc = "resolved" /\ comp.mountedRef
                     THEN [comp EXCEPT !.timeoutRef = "set"]
                     ELSE comp
    /\ UNCHANGED <<now, patients, facility, uiPass, bf, ops, csv>>

\* the timeout callback of runAndScheduleNext
TimerFire ==
    /\ chain.pc = "timer"
    /\ now >= chain.deadline
    /\ chain' = runAndScheduleNext(comp.mountedRef, slotIdFor(now))
    /\ UNCHANGED <<now, reports, patients, facility, uiPass, bf, comp, ops, fails, csv>>

\* ----------------------------------------------------------- specifications
DefaultConfig == [totalBeds |-> MaxBeds, icuBeds |-> 1, emergencyCapacity |-> 0]

InitIdle ==
    /\ uiPass = Idle
    /\ bf = [pc |-> "idle"]
    /\ comp = [alive |-> FALSE, facilityId |-> NoFacility, mountedRef |-> FALSE,
               timeoutRef |-> "null", cleanup |-> FALSE, hasRun |-> {}]
    /\ chain = NoChain
    /\ ops = 0
    /\ fails = 0
    /\ csv = NoExport

\* Settings.handleSave by an admin, on the success path of setDoc: the
\* capacity configuration of the facility is replaced
Capacities == {DefaultConfig, [totalBeds |-> 1, icuBeds |-> 0, emergencyCapacity |-> 0]}

SaveSettings ==
    /\ ops < MaxOps
    /\ ops' = ops + 1
    /\ \E form \in Capacities \ {facility} : facility' = form
    /\ UNCHANGED <<now, reports, patients, uiPass, bf, comp, chain, fails, csv>>

\* a new facility: no patients, no reports
Init ==
    /\ now = 0
    /\ reports = << >>
    /\ patients = NoPatients
    /\ facility = DefaultConfig
    /\ InitIdle

\* no store operation is pending
Quiet ==
    /\ ~InFlight(uiPass)
    /\ bf.pc \in {"idle", "done"}
    /\ chain.pc \in {"none", "timer"}
    /\ chain.pc = "timer" => now < chain.deadline

\* The clock moves and the user acts between store operations, not during
\* them; the hooks' own concurrency (the scheduled run beside backfill, a
\* teardown during a run) is left free.
Next ==
    \/ Quiet /\ Tick
    \/ Quiet /\ AddPatient
    \/ Quiet /\ Discharge
    \/ UiPassStep
    \/ BackfillStep
    \/ Mount
    \/ ChangeFacility
    \/ Unmount
    \/ ChainStep
    \/ TimerFire

Spec == Init /\ [][Next]_vars

\* ------------------------------------------- the aggregator on drawn inputs
\* The aggregator is a function of the patients, the capacity config, the
\* preceding slot's report and the slot.  SpecAgg draws them from bounded
\* sets and lets the UI handlers run update6HourReport on them.

\* patient documents around today: admitted today, critical since yesterday,
\* discharged yesterday, discharged today, discharged without a dischargeDate
\* (handleDischarge), admitted tomorrow, and one without admissionDate
Roster(today) ==
    {[admissionDate |-> today, status |-> "admitted", icuRequired |-> FALSE,
      diagnosis |-> "flu"],
     [admissionDate |-> today - 1, status |-> "critical", icuRequired |-> TRUE,
      diagnosis |-> "flu"],
     [admissionDate |-> today - 1, status |-> "discharged", icuRequired |-> FALSE,
      diagnosis |-> "flu", dischargeDate |-> today - 1],
     [admissionDate |-> today - 1, status |-> "discharged", icuRequired |-> TRUE,
      diagnosis |-> "covid", dischargeDate |-> today],
     [admissionDate |-> today - 1, status |-> "discharged", icuRequired |-> FALSE,
      diagnosis |-> "dengue"],
     [admissionDate |-> today + 1, status |-> "admitted", icuRequired |-> FALSE,
      diagnosis |-> "other"],
     [status |-> "admitted", icuRequired |-> TRUE, diagnosis |-> "flu"]}

RECURSIVE BagsUpTo(_, _)
BagsUpTo(n, docs) ==
    IF n = 0 THEN {NoPatients}
    ELSE LET S == BagsUpTo(n - 1, docs)
         IN  S \cup {BagAdd(B, p) : B \in S, p \in docs}

\* day 1, 03:00 (the preceding slot is on day 0) and day 1, 15:00
AggTimes == {27, 39}

AggConfigs ==
    [totalBeds : {0, 1, 100}, icuBeds : {0, 1}, emergencyCapacity : {0, 1}]

\* the slots whose reports the passes of SpecAgg read as the preceding one
PrevKeys(t) ==
    {prevSlotIdOf(<<d, slotOfHour(getHours(t))>>) : d \in {localDateStr(t) - 1, localDateStr(t)}}

\* the report update6HourReport stored for slot id at its window start
AggregatedAt(id, pats, facilityData) ==
    reportPayload(id, id[1], pats, facilityData, [exists |-> FALSE], slotIdToDate(id))

\* the reports collection before the passes: nothing; what generateScheduledReport
\* leaves after a failed aggregation; or aggregated reports of the preceding
\* slots, made when none, one or all of the patients were registered
PrevReports(t, pats, facilityData) ==
    {<< >>,
     [k \in PrevKeys(t) |-> [scheduledRun |-> TRUE]],
     [k \in PrevKeys(t) |-> AggregatedAt(k, NoPatients, facilityData)],
     [k \in PrevKeys(t) |-> AggregatedAt(k, pats, facilityData)]}
    \cup {[k \in PrevKeys(t) |-> AggregatedAt(k, BagAdd(NoPatients, p), facilityData)] :
            p \in DOMAIN pats}

InitAgg ==
    /\ now \in AggTimes
    /\ patients \in BagsUpTo(MaxRoster, Roster(localDateStr(now)))
    /\ facility \in AggConfigs
    /\ reports \in PrevReports(now, patients, facility)
    /\ InitIdle

NextAgg ==
    \/ AddPatient
    \/ Discharge
    \/ ExportCSV
    \/ UiPassStep

SpecAgg == InitAgg /\ [][NextAgg]_vars

\* repeated runs on unchanged inputs: only exportCSV starts passes
NextIdem ==
    \/ ExportCSV
    \/ UiPassStep

SpecIdem == InitAgg /\ [][NextIdem]_vars

\* ------------------------------------------- the scheduler on a free clock
\* The wall clock moves by three hours, also while store operations are
\* pending; a pending timer fires before the clock passes its deadline.
Advance ==
    /\ (now + SIX_HOURS_MS \div 2) \div SIX_HOURS_MS <= MaxSchedSlot
    /\ chain.pc = "timer" => now + SIX_HOURS_MS \div 2 <= chain.deadline
    /\ now' = now + SIX_HOURS_MS \div 2
    /\ UNCHANGED <<reports, patients, facility, uiPass, bf, comp, chain, ops, fails, csv>>

\* the dashboard mounts at any instant and stays mounted; the store does not fail
NextSched ==
    \/ Advance
    \/ Mount
    \/ AddPatient
    \/ UiPassStep /\ fails' = fails
    \/ BackfillStep /\ fails' = fails
    \/ ChainStep /\ fails' = fails
    \/ TimerFire

SpecSched == Init /\ [][NextSched]_vars

\* the scheduler and backfill alone, the store never failing; every pending
\* store operation completes, a due timer fires and the clock goes on
NextLive ==
    \/ Advance
    \/ Mount
    \/ BackfillStep /\ fails' = fails
    \/ ChainStep /\ fails' = fails
    \/ TimerFire

SpecLive ==
    /\ Init
    /\ [][NextLive]_vars
    /\ WF_vars(Advance)
    /\ WF_vars(BackfillStep /\ fails' = fails)
    /\ WF_vars(ChainStep /\ fails' = fails)
    /\ WF_vars(TimerFire)

\* ------------------------------------------------ observations of the steps
SlotKeys == {"slotId", "date", "slot", "timestamp", "autoFilled", "scheduledRun"}

FirstId(ids) == CHOOSE a \in ids : \A b \in ids : b = a \/ IdLess(a, b)

\* every slot from the earliest report through cur has a report
NoGaps(coll, cur) ==
    DOMAIN coll # {} =>
        \A k \in 0..(4 * (MaxSlot + 2)) :
            LET d == slotIdToDate(FirstId(DOMAIN coll)) + k * SIX_HOURS_MS
            IN  d <= slotIdToDate(cur) => dateToSlotId(d) \in DOMAIN coll

IsAutoFilled(doc) == Has(doc, "autoFilled") /\ doc.autoFilled

\* this step is the successful setDoc of the UI-started aggregation
UiWrote == uiPass.pc = "setDoc" /\ uiPass' = Settled("resolved", FALSE)

\* this step is the successful setDoc of the aggregation inside gen
GenWrote(g, g2) ==
    /\ g.pc = "update"
    /\ g.pass.pc = "setDoc"
    /\ g2.pc = "mark"
    /\ ~g2.failed

ChainWrote == chain.pc = "gen" /\ chain'.pc = "gen" /\ GenWrote(chain.gen, chain'.gen)

BackfillAggWrote == bf.pc = "gen" /\ bf'.pc = "gen" /\ GenWrote(bf.gen, bf'.gen)

\* this step is a successful forward-fill setDoc of backfill
BackfillCopied == bf.pc = "setDoc" /\ bf' # bf /\ bf' # BackfillDone(TRUE)

\* this step ends a backfill run in which no store operation failed
BackfillCompleted == bf.pc \in {"getDocs", "setDoc", "gen"} /\ bf' = BackfillDone(FALSE)

\* the nearest earlier report of the series
NearestEarlier(coll, id) == LastId({k \in DOMAIN coll : IdLess(k, id)})

\* C1: after backfillMissingSlots completes without store errors, every
\* 6-hour slot from the earliest existing report through the current slot
\* has a report.
C1_BackfillLeavesNoGap ==
    [][(BackfillCompleted /\ fails' = 0) => NoGaps(reports', bf.currentSlotId)]_vars

\* C2: a report has autoFilled = true iff the backfill forward-fill copy
\* produced it: every aggregator write leaves its report not autoFilled, and
\* every forward-fill write leaves its report autoFilled.
C2_AutoFilledIffBackfilled ==
    [][/\ UiWrote => ~IsAutoFilled(reports'[uiPass.slotId])
       /\ ChainWrote => ~IsAutoFilled(reports'[chain.gen.pass.slotId])
       /\ BackfillAggWrote => ~IsAutoFilled(reports'[bf.gen.pass.slotId])
       /\ BackfillCopied => IsAutoFilled(reports'[bf.missingSlotId])]_vars

\* C3: a report synthesized by backfill equals the nearest earlier report of
\* the series on every field except slotId, date, slot, timestamp, autoFilled
\* and scheduledRun, which are the slot's identity, its window start, true and
\* false.
C3_CopyOfNearestEarlier ==
    [][BackfillCopied =>
          LET id == bf.missingSlotId
              new == reports'[id]
              src == reports'[NearestEarlier(reports', id)]
          IN  /\ Without(new, SlotKeys) = Without(src, SlotKeys)
              /\ new.slotId = id /\ new.date = id[1] /\ new.slot = id[2]
              /\ new.timestamp = slotIdToDate(id)
              /\ new.autoFilled = TRUE /\ new.scheduledRun = FALSE]_vars

\* --------------------------------------------------- the aggregator's claims
RawFields ==
    {"occupiedBeds", "icuOccupied", "fluCases", "dengueCases", "covidCases",
     "emergencyCases", "newAdmissions", "discharges"}

RatioFields == {"bedUtilization", "icuStressIndex", "fluGrowthRate", "riskScore"}

DerivedFields == RatioFields \cup {"availableBeds"}

AlertFields == {"overCapacity", "icuCritical", "diseaseSpike"}

Restrict(doc, fields) == [f \in fields \cap DOMAIN doc |-> doc[f]]

\* the report the UI-started pass has just stored
Stored == reports'[uiPass.slotId]

\* 0 <= f <= 1 for a ratio f
InUnit(f) == f[2] > 0 /\ f[1] >= 0 /\ f[1] <= f[2]

\* C4: a run of update6HourReport for a slot that an earlier run on the same
\* patients, capacity config and preceding report already stored leaves the
\* raw counts, the derived fields and the alert flags as they were.
C4_RerunStoresTheSame ==
    [][(UiWrote /\ uiPass.slotId \in DOMAIN reports) =>
          Restrict(Stored, RawFields \cup DerivedFields \cup AlertFields)
            = Restrict(reports[uiPass.slotId], RawFields \cup DerivedFields \cup AlertFields)]_vars

\* a second run has stored its report, over a first one with non-zero counts
C4_SecondRunStored ==
    /\ ops = 2
    /\ fails = 0
    /\ uiPass = Settled("resolved", FALSE)
    /\ getCurrent6HourSlot \in DOMAIN reports
    /\ reports[getCurrent6HourSlot].newAdmissions > 0
    /\ reports[getCurrent6HourSlot].fluGrowthRate # Zero

\* C5: with totalBeds > 0 (icuBeds > 0) the bedUtilization (icuStressIndex)
\* that update6HourReport stores lies in [0,1].
C5_RatiosWithinUnit ==
    [][UiWrote =>
          /\ uiPass.facility.totalBeds > 0 => InUnit(Stored.bedUtilization)
          /\ uiPass.facility.icuBeds > 0 => InUnit(Stored.icuStressIndex)]_vars

\* fluCases of the preceding slot's report as the pass read it; 0 when the
\* report is missing or carries no fluCases
PrevFluCases(p) ==
    IF p.prev.exists /\ Has(p.prev.data, "fluCases") THEN p.prev.data.fluCases ELSE 0

\* C6: the stored bedUtilization is 0 when totalBeds is 0, the stored
\* icuStressIndex is 0 when icuBeds is 0, the stored fluGrowthRate is 0 when
\* the preceding report is missing or has no flu cases and is
\* (current - previous) / previous otherwise; no stored ratio is NaN or
\* infinite.
C6_DivisionsAreGuarded ==
    /\ [](\A id \in DOMAIN reports : \A f \in RatioFields \cap DOMAIN reports[id] :
             reports[id][f][2] > 0)
    /\ [][UiWrote =>
            /\ uiPass.facility.totalBeds = 0 => Stored.bedUtilization = <<0, 1>>
            /\ uiPass.facility.icuBeds = 0 => Stored.icuStressIndex = <<0, 1>>
            /\ PrevFluCases(uiPass) = 0 => Stored.fluGrowthRate = <<0, 1>>
            /\ PrevFluCases(uiPass) > 0 =>
                  /\ Stored.fluGrowthRate[2] > 0
                  /\ Stored.fluGrowthRate[1] * PrevFluCases(uiPass)
                       = (Stored.fluCases - PrevFluCases(uiPass)) * Stored.fluGrowthRate[2]]_vars

\* a report stored with ICU patients but no ICU beds, and flu cases after a
\* preceding report without any
C6_GuardsTaken ==
    /\ uiPass = Settled("resolved", FALSE)
    /\ fails = 0
    /\ ops = 1
    /\ facility.icuBeds = 0
    /\ getCurrent6HourSlot \in DOMAIN reports
    /\ reports[getCurrent6HourSlot].icuOccupied > 0
    /\ reports[getCurrent6HourSlot].fluCases > 0
    /\ prevSlotIdOf(getCurrent6HourSlot) \in DOMAIN reports
    /\ Has(reports[prevSlotIdOf(getCurrent6HourSlot)], "fluCases")
    /\ reports[prevSlotIdOf(getCurrent6HourSlot)].fluCases = 0

\* C7: the stored occupiedBeds counts the patients admitted on or before the
\* slot's window start and not discharged with a discharge date whose day
\* ended by then; newAdmissions counts all patients admitted on the slot's
\* date, discharges all patients discharged on it; availableBeds is
\* max(0, totalBeds - occupiedBeds).  With 100 beds and one admitted patient
\* admitted today: 1 occupied, 99 available, 1 new admission, 0 discharges.
C7_CountsAsDefined ==
    [][UiWrote =>
          LET windowStart == slotIdToDate(uiPass.slotId)
              slotDate == uiPass.slotId[1]
              dischargedBy(q) ==
                  /\ q.status = "discharged"
                  /\ "dischargeDate" \in DOMAIN q
                  /\ (q.dischargeDate + 1) * 24 <= windowStart
              active(q) ==
                  /\ "admissionDate" \in DOMAIN q
                  /\ q.admissionDate * 24 <= windowStart
                  /\ ~dischargedBy(q)
              admittedOn(q) == "admissionDate" \in DOMAIN q /\ q.admissionDate = slotDate
              dischargedOn(q) ==
                  /\ q.status = "discharged"
                  /\ "dischargeDate" \in DOMAIN q
                  /\ q.dischargeDate = slotDate
              free == uiPass.facility.totalBeds - Stored.occupiedBeds
              today == localDateStr(now)
              one == [admissionDate |-> today, status |-> "admitted",
                      icuRequired |-> FALSE, diagnosis |-> "flu"]
          IN  /\ Stored.occupiedBeds = CountWhere(uiPass.patients, {q \in DOMAIN uiPass.patients : active(q)})
              /\ Stored.newAdmissions = CountWhere(uiPass.patients, {q \in DOMAIN uiPass.patients : admittedOn(q)})
              /\ Stored.discharges = CountWhere(uiPass.patients, {q \in DOMAIN uiPass.patients : dischargedOn(q)})
              /\ Stored.availableBeds = (IF free > 0 THEN free ELSE 0)
              /\ (/\ uiPass.facility.totalBeds = 100
                  /\ uiPass.patients = BagAdd(NoPatients, one)
                  /\ slotDate = today)
                 => /\ Stored.occupiedBeds = 1
                    /\ Stored.availableBeds = 99
                    /\ Stored.newAdmissions = 1
                    /\ Stored.discharges = 0]_vars

\* the report of the current slot was stored for 100 beds and one admitted
\* patient admitted today
C7_HundredBedsOnePatient ==
    /\ uiPass = Settled("resolved", FALSE)
    /\ fails = 0
    /\ ops = 1
    /\ facility.totalBeds = 100
    /\ patients = BagAdd(NoPatients, [admissionDate |-> localDateStr(now), status |-> "admitted",
                                     icuRequired |-> FALSE, diagnosis |-> "flu"])
    /\ getCurrent6HourSlot \in DOMAIN reports
    /\ reports[getCurrent6HourSlot].occupiedBeds = 1
    /\ reports[getCurrent6HourSlot].availableBeds = 99

\* C8: a store failure during update6HourReport leaves the call resolved,
\* never rejected, and the reports collection as it was: the failing step
\* writes nothing, and no step before the final setDoc writes.
C8_FailureIsSwallowed ==
    /\ [](uiPass.pc # "rejected")
    /\ [][(InFlight(uiPass) /\ uiPass' # uiPass) =>
            /\ fails' # fails => (uiPass' = Settled("resolved", TRUE) /\ reports' = reports)
            /\ uiPass.pc # "setDoc" => reports' = reports]_vars

\* a pass has ended after a failed store operation
C8_PassFailed == uiPass = Settled("resolved", TRUE) /\ fails = 1

\* ----------------------------------------------------------------- CSV text
\* A string is a sequence of characters; the characters that matter to CSV
\* are named, Letter stands for any other character.
Comma == ","
Quote == "DQUOTE"
Newline == "LF"
Return == "CR"
Letter == "a"
Chars == {Comma, Quote, Newline, Return, Letter}

RECURSIVE StringsUpTo(_)
StringsUpTo(n) ==
    IF n = 0 THEN {<< >>}
    ELSE LET shorter == StringsUpTo(n - 1)
         IN  shorter \cup {Append(t, c) : t \in shorter, c \in Chars}

\* str.includes(c)
includes(str, c) == \E i \in 1..Len(str) : str[i] = c

\* str.replace(/"/g, '""')
RECURSIVE doubleQuotes(_)
doubleQuotes(str) ==
    IF str = << >> THEN << >>
    ELSE (IF Head(str) = Quote THEN <<Quote, Quote>> ELSE <<Head(str)>>)
         \o doubleQuotes(Tail(str))

\* escape applied to the cell of a string field: cell is << >> for a
\* missing value, <<str>> for the string str
escape(cell) ==
    IF cell = << >> THEN << >>
    ELSE LET str == cell[1]
         IN  IF includes(str, Comma) \/ includes(str, Quote) \/ includes(str, Newline)
             THEN <<Quote>> \o doubleQuotes(str) \o <<Quote>>
             ELSE str

\* texts.join(',')
RECURSIVE join(_)
join(texts) ==
    IF texts = << >> THEN << >>
    ELSE IF Len(texts) = 1 THEN texts[1]
    ELSE texts[1] \o <<Comma>> \o join(Tail(texts))

\* COLUMNS.map(col => escape(row[col])).join(',')
csvLine(row) == join([c \in 1..Len(COLUMNS) |-> escape(cellOf(row, COLUMNS[c]))])

\* String(d.id): the text of a slot id has none of the named characters
idText(id) == <<Letter, Letter>>

\* the row of a stored report is turned into its line of the raw export
WriteCsvLine ==
    /\ csv.pc = "idle"
    /\ \E id \in DOMAIN reports :
          csv' = [pc |-> "line", slotId |-> id,
                  content |-> csvLine(MergeDoc([slotId |-> idText(id)], reports[id]))]
    /\ UNCHANGED <<now, reports, patients, facility, uiPass, bf, comp, chain, ops, fails>>

\* the columns that hold free text in the reports drawn here
TextColumns == {"facilityId", "date"}

\* one stored report whose text fields are any strings, or missing
InitCsv ==
    /\ now = 0
    /\ patients = NoPatients
    /\ facility = DefaultConfig
    /\ InitIdle
    /\ \E present \in SUBSET TextColumns :
          \E doc \in [present -> StringsUpTo(MaxLen)] : reports = (<<0, 0>> :> doc)

SpecCsv == InitCsv /\ [][WriteCsvLine]_vars

\* A standard CSV parser (RFC 4180) reading the first record of a text from
\* position i: field is the field read so far, quoted whether it is inside a
\* quoted field, fields the fields completed before it.  Outside quotes a
\* comma ends the field and a line break (LF or CR) ends the record.
RECURSIVE parseRecord(_, _, _, _, _)
parseRecord(text, i, field, quoted, fields) ==
    IF i > Len(text) THEN Append(fields, field)
    ELSE LET c == text[i]
         IN  IF quoted
             THEN IF c = Quote
                  THEN IF i < Len(text) /\ text[i + 1] = Quote
                       THEN parseRecord(text, i + 2, Append(field, Quote), TRUE, fields)
                       ELSE parseRecord(text, i + 1, field, FALSE, fields)
                  ELSE parseRecord(text, i + 1, Append(field, c), TRUE, fields)
             ELSE IF c = Comma
                  THEN parseRecord(text, i + 1, << >>, FALSE, Append(fields, field))
                  ELSE IF c \in {Newline, Return} THEN Append(fields, field)
                  ELSE IF c = Quote /\ field = << >>
                       THEN parseRecord(text, i + 1, << >>, TRUE, fields)
                       ELSE parseRecord(text, i + 1, Append(field, c), FALSE, fields)

\* the strings the fields of a row stand for: the empty string for a missing one
FieldStrings(row) ==
    [c \in 1..Len(COLUMNS) |-> IF Has(row, COLUMNS[c]) THEN row[COLUMNS[c]] ELSE << >>]

InitCal ==
    /\ now \in 0..CalHorizon
    /\ reports = << >>
    /\ patients = NoPatients
    /\ facility = DefaultConfig
    /\ InitIdle

NextCal ==
    \/ Quiet /\ Tick
    \/ Mount
    \/ BackfillStep /\ fails' = fails
    \/ ChainStep /\ fails' = fails
    \/ TimerFire

SpecCal == InitCal /\ [][NextCal]_vars

\* ------------------------------------------- aggregation beside the settings
\* The passes of the user, the scheduler and backfill while an admin changes
\* the capacity configuration; the store does not fail.
NextFrame ==
    \/ Quiet /\ Tick
    \/ Quiet /\ AddPatient
    \/ Quiet /\ SaveSettings
    \/ UiPassStep /\ fails' = fails
    \/ Mount
    \/ BackfillStep /\ fails' = fails
    \/ ChainStep /\ fails' = fails
    \/ TimerFire

SpecFrame == Init /\ [][NextFrame]_vars

\* ------------------------------------------------------- backfill alone
\* backfillMissingSlots called again and again at one instant, on any series
\* of aggregated reports up to the current slot; nothing else writes.
RunBackfill ==
    /\ ops < MaxOps
    /\ ops' = ops + 1
    /\ bf.pc \in {"idle", "done"}
    /\ bf' = backfillMissingSlots
    /\ UNCHANGED <<now, reports, patients, facility, uiPass, comp, chain, fails, csv>>

\* day 1, 03:00 and day 0, 21:00
BackfillTimes == {27, 21}

SlotsUpTo(t) == {dateToSlotId(k * SIX_HOURS_MS) : k \in 0..(t \div SIX_HOURS_MS)}

InitBackfill ==
    /\ now \in BackfillTimes
    /\ patients \in BagsUpTo(1, Roster(localDateStr(now)))
    /\ facility = DefaultConfig
    /\ \E K \in SUBSET SlotsUpTo(now) :
          reports = [k \in K |-> AggregatedAt(k, NoPatients, facility)]
    /\ InitIdle

NextBackfill ==
    \/ RunBackfill
    \/ BackfillStep

SpecBackfill == InitBackfill /\ [][NextBackfill]_vars

\* ------------------------------------------- backfill over daily reports
\* DailyReports.handleSave on the success path of setDoc: the form is stored
\* under the date alone, merged into what that key holds
DailyForm(date) ==
    [date |-> date, totalBeds |-> 2, occupiedBeds |-> 1, icuBeds |-> 1, icuOccupied |-> 0,
     emergencyCases |-> 0, fluCases |-> 1, covidCases |-> 0, dengueCases |-> 0,
     newAdmissions |-> 1, discharges |-> 0, avgTreatmentDays |-> 1,
     facilityId |-> FacilityId, updatedAt |-> now]

SaveDailyReport ==
    /\ ops < MaxOps
    /\ ops' = ops + 1
    /\ \E date \in 0..localDateStr(now) :
          reports' = SetDoc(reports, <<date, NoHour>>, DailyForm(date), TRUE)
    /\ UNCHANGED <<now, patients, facility, uiPass, bf, comp, chain, fails, csv>>

\* day 1, 15:00
LegacyTimes == {39}

\* any series of aggregated reports up to the current slot; daily reports are
\* saved and backfill is called, every store operation succeeding
InitLegacy ==
    /\ now \in LegacyTimes
    /\ patients \in BagsUpTo(1, Roster(localDateStr(now)))
    /\ facility = DefaultConfig
    /\ \E K \in SUBSET SlotsUpTo(now) :
          reports = [k \in K |-> AggregatedAt(k, NoPatients, facility)]
    /\ InitIdle

NextLegacy ==
    \/ SaveDailyReport
    \/ RunBackfill
    \/ BackfillStep /\ fails' = fails

SpecLegacy == InitLegacy /\ [][NextLegacy]_vars

\* ------------------------------------- backfill beside the patient form
\* day 2, 03:00
RaceTimes == {51}

\* a series of aggregated reports without holes, ending at any slot up to the
\* current one; a patient is saved while backfill is running, every store
\* operation succeeding
InitRace ==
    /\ now \in RaceTimes
    /\ patients = NoPatients
    /\ facility = DefaultConfig
    /\ \E n \in 0..(now \div SIX_HOURS_MS) :
          reports = [k \in SlotsUpTo(n * SIX_HOURS_MS) |->
                        AggregatedAt(k, NoPatients, facility)]
    /\ InitIdle

NextRace ==
    \/ RunBackfill
    \/ BackfillStep /\ fails' = fails
    \/ AddPatient
    \/ UiPassStep /\ fails' = fails

SpecRace == InitRace /\ [][NextRace]_vars

\* ---------------------------------------- the dashboard mounts on a gap
\* day 1, 03:00
MountTimes == {27}

\* a series of aggregated reports without holes whose latest slot is at least
\* two slots before the current one; the dashboard mounts and a patient may be
\* saved, every store operation succeeding
InitMount ==
    /\ now \in MountTimes
    /\ patients = NoPatients
    /\ facility = DefaultConfig
    /\ \E n \in 0..((now \div SIX_HOURS_MS) - 2) :
          reports = [k \in SlotsUpTo(n * SIX_HOURS_MS) |->
                        AggregatedAt(k, NoPatients, facility)]
    /\ InitIdle

NextMount ==
    \/ Mount
    \/ ChainStep /\ fails' = fails
    \/ BackfillStep /\ fails' = fails
    \/ AddPatient
    \/ UiPassStep /\ fails' = fails

SpecMount == InitMount /\ [][NextMount]_vars

\* ------------------------------------------- patients with any date
\* patients are saved with the date of yesterday, today or tomorrow and are
\* discharged, while the clock moves; every store operation succeeds
NextAhead ==
    \/ Quiet /\ Tick
    \/ AddPatientAnyDate
    \/ Discharge
    \/ UiPassStep /\ fails' = fails

SpecAhead == Init /\ [][NextAhead]_vars

\* --------------------------------------------- the user's handlers alone
\* The user admits, discharges and exports; an export is left to end before
\* the next action, and the clock moves between store operations.
NextUi ==
    \/ csv.pc # "update" /\ ~InFlight(uiPass) /\ Tick
    \/ csv.pc # "update" /\ AddPatient
    \/ csv.pc # "update" /\ Discharge
    \/ csv.pc # "update" /\ ExportCSV
    \/ csv.pc # "update" /\ ExportMLCSV
    \/ UiPassStep
    \/ ExportCSVRead

SpecUi == Init /\ [][NextUi]_vars

\* ----------------------------------------------------- the hooks' claims
\* the scheduler effect is running for FacilityId
Mounted == comp.alive /\ comp.facilityId = FacilityId

\* the slots whose window starts within the scheduler's horizon
SchedSlots == {dateToSlotId(k * SIX_HOURS_MS) : k \in 0..MaxSchedSlot}

\* the report of slot id was written by a scheduled run
ScheduledReport(id) ==
    /\ id \in DOMAIN reports
    /\ Has(reports[id], "scheduledRun")
    /\ reports[id].scheduledRun

\* C11: while the scheduler is mounted and the store does not fail, every
\* slot boundary the clock reaches leads to a report for the slot beginning
\* there with scheduledRun = true, with a timer for a following boundary
\* armed.
C11_EveryBoundaryGetsItsReport ==
    \A id \in SchedSlots :
        (Mounted /\ now = slotIdToDate(id))
            ~> (/\ ScheduledReport(id)
                /\ chain.pc = "timer"
                /\ chain.deadline > slotIdToDate(id))

\* an effect run of useBackfillReports starts backfillMissingSlots
BackfillStarted == bf'.pc = "getDocs" /\ bf.pc # "getDocs"

\* C12: within one session backfillMissingSlots is started at most once for
\* a facility ID, whatever the mounts, unmounts and facilityId changes: a
\* start finds backfill never started before.
C12_BackfillStartsOnce == [][BackfillStarted => bf.pc = "idle"]_vars

\* C13: every successful patient creation or discharge starts one
\* aggregation, and that aggregation is for the current slot.
C13_MutationAggregatesCurrentSlot ==
    [][patients' # patients =>
          /\ uiPass'.pc = "getPatients"
          /\ uiPass'.slotId = getCurrent6HourSlot]_vars

\* the raw counts and derived fields stored for slot id in coll are those an
\* aggregation of the patients and the configuration of this moment gives
MetricsCurrent(coll, id) ==
    /\ id \in DOMAIN coll
    /\ Restrict(coll[id], RawFields \cup DerivedFields)
         = Restrict(reportPayload(id, id[1], patients, facility,
                                  GetDoc(coll, prevSlotIdOf(id)), now),
                    RawFields \cup DerivedFields)

\* C14: a pass started by a mutation and a pass started by the timer run
\* concurrently for one slot; whichever writes last, the stored counts and
\* derived fields are those of the patients at that moment: the timer's write
\* after the mutation's pass has finished keeps them current.
C14_LastWriterStoresCurrent ==
    [][(/\ ChainWrote
        /\ uiPass = Settled("resolved", FALSE)
        /\ MetricsCurrent(reports, chain.gen.pass.slotId))
       => MetricsCurrent(reports', chain.gen.pass.slotId)]_vars

\* ------------------------------------------------------ the exports' claims
\* this step ends an export with a file of the given kind
Exported(kind) == csv.pc # "file" /\ csv'.pc = "file" /\ csv'.kind = kind

\* the place of the row of report id in a file sorted ascending by slot id
RankOf(id) == 1 + Cardinality({k \in DOMAIN reports : IdLess(k, id)})

\* the cells of the raw export that an aggregation of the patients and the
\* configuration of this moment gives for slot id
FreshCells(id) ==
    LET fresh == reportPayload(id, id[1], patients, facility,
                               GetDoc(reports, prevSlotIdOf(id)), now)
    IN  [c \in 1..Len(COLUMNS) |->
            IF COLUMNS[c] = "slotId" THEN <<id>>
            ELSE IF COLUMNS[c] \in DOMAIN fresh THEN <<fresh[COLUMNS[c]]>>
            ELSE << >>]

\* the columns of the feature export that hold stored counts
CountColumns == {c \in 1..Len(FEATURE_COLUMNS) : FEATURE_COLUMNS[c] \in RawFields}

\* C15: exportCSV reads the reports after its aggregation of the current
\* slot has ended, so when no store operation failed its file has the row of
\* the current slot, computed from the patients of that moment; exportMLCSV
\* writes nothing and its rows hold the stored values; either file has one
\* row per report in ascending order of slot id; an empty collection gives a
\* notice and no file.
C15_ExportsReadAfterAggregation ==
    [][/\ csv' # csv => reports' = reports
       /\ Exported("raw") =>
             /\ ~InFlight(uiPass)
             /\ Len(csv'.rows) = Cardinality(DOMAIN reports)
             /\ \A id \in DOMAIN reports : csv'.rows[RankOf(id)][1] = <<id>>
             /\ uiPass = Settled("resolved", FALSE) =>
                   /\ getCurrent6HourSlot \in DOMAIN reports
                   /\ csv'.rows[RankOf(getCurrent6HourSlot)]
                         = FreshCells(getCurrent6HourSlot)
       /\ Exported("ml") =>
             /\ uiPass' = uiPass
             /\ Len(csv'.rows) = Cardinality(DOMAIN reports)
             /\ \A id \in DOMAIN reports :
                   LET row == csv'.rows[RankOf(id)]
                   IN  /\ row[1] = id[2]
                       /\ \A c \in CountColumns :
                             row[c] = IF Has(reports[id], FEATURE_COLUMNS[c])
                                      THEN reports[id][FEATURE_COLUMNS[c]] ELSE 0
       /\ (csv' # csv /\ csv'.pc \in {"file", "notice"}) =>
             (csv'.pc = "notice" <=> DOMAIN reports = {})]_vars

\* a raw export of three reports, the last of them aggregated by the export
\* from a patient admitted before, with no store failure
C15_ThreeRowsExported ==
    /\ csv.pc = "file"
    /\ csv.kind = "raw"
    /\ Len(csv.rows) = 3
    /\ csv.rows[3][4] = <<1>>
    /\ fails = 0

\* ----------------------------------------------------- the calendar's claims
\* C17: the slots partition the time line and the two conversions are exact
\* inverses: the slot of an instant starts at or before it and less than six
\* hours before it, its hour part is 00, 06, 12 or 18, and the id of the
\* start of a slot is that slot.
C17_SlotsPartitionTime ==
    LET s == dateToSlotId(now)
    IN  /\ slotIdToDate(s) <= now
        /\ now < slotIdToDate(s) + SIX_HOURS_MS
        /\ s[2] \in SlotHours
        /\ s = getCurrent6HourSlot
        /\ \A id \in DOMAIN reports \cup {s, prevSlotIdOf(s)} :
              /\ id[2] \in SlotHours
              /\ dateToSlotId(slotIdToDate(id)) = id

\* a report of slot 00 of the second day was written at 03:00, inside its
\* window, and the clock is now inside the next window
C17_InsideTwoWindows ==
    /\ <<1, 0>> \in DOMAIN reports
    /\ Has(reports[<<1, 0>>], "timestamp")
    /\ reports[<<1, 0>>].timestamp = 27
    /\ now = 33

\* this step arms the timer of runAndScheduleNext
TimerArmed == chain.pc = "gen" /\ chain'.pc = "timer"

\* C18: the deadline nextSlotBoundary gives at time t is the smallest slot
\* start strictly after t, also when t is itself a slot start, and from the
\* 18:00 slot it is 00:00 of the next day.
C18_NextBoundaryIsNearestLater ==
    [][TimerArmed =>
          LET d == chain'.deadline
          IN  /\ d > now
              /\ dateToSlotId(d) # dateToSlotId(now)
              /\ slotIdToDate(dateToSlotId(d)) = d
              /\ \A t \in (now + 1)..(d - 1) : slotIdToDate(dateToSlotId(t)) # t
              /\ getHours(now) >= 18 => d = (localDateStr(now) + 1) * 24]_vars

\* timers armed at 18:00 sharp of the first day for 00:00 of the second
C18_ArmedOnBoundaryAcrossMidnight ==
    /\ chain.pc = "timer"
    /\ chain.deadline = 24
    /\ now = 18
    /\ <<0, 18>> \in DOMAIN reports

\* the patient documents read by the pass of uiPass are one patient, discharged
ReadOneDischarged ==
    /\ BagSize(uiPass.patients) = 1
    /\ \A p \in DOMAIN uiPass.patients : p.status = "discharged"

\* C19: once the aggregation started by a discharge has written, no store
\* operation having failed, the report of the current slot counts the discharged patient in discharges for that
\* day.  With no export started, the pass that read a single discharged
\* patient is the one handleDischarge started, on the day of the discharge.
C19_DischargeIsCounted ==
    [][(UiWrote /\ csv = NoExport /\ ReadOneDischarged /\ fails' = 0)
          => /\ Stored.date = localDateStr(now)
             /\ Stored.discharges = 1]_vars

\* C20: generateScheduledReport(facilityId, slotId) writes the aggregated
\* metrics to the report keyed by exactly slotId, whatever the wall clock:
\* the aggregation it runs, for the scheduler or for backfill, writes slotId.
C20_MetricsGoToTheGivenSlot ==
    [][/\ ChainWrote => chain.gen.pass.slotId = chain.gen.slotId
       /\ BackfillAggWrote => bf.gen.pass.slotId = bf.gen.slotId]_vars

\* ---------------------------------------------------- the writers' claims
\* the fields of the payload update6HourReport writes
PayloadFields ==
    {"facilityId", "slotId", "timestamp", "date", "slot", "totalBeds", "icuBeds"}
        \cup RawFields \cup DerivedFields \cup AlertFields

\* a write of the aggregator to slot target: that document alone changes, by
\* a merge of the payload's fields
OnlyMerged(target) ==
    /\ DOMAIN reports' = DOMAIN reports \cup {target}
    /\ \A id \in DOMAIN reports \ {target} : reports'[id] = reports[id]
    /\ PayloadFields \subseteq DOMAIN reports'[target]
    /\ target \in DOMAIN reports =>
          /\ DOMAIN reports'[target] = DOMAIN reports[target] \cup PayloadFields
          /\ \A f \in DOMAIN reports[target] \ PayloadFields :
                reports'[target][f] = reports[target][f]

\* this step is a store operation of an aggregation pass other than its write
PassRead ==
    \/ InFlight(uiPass) /\ uiPass' # uiPass /\ ~UiWrote
    \/ /\ chain.pc = "gen"
       /\ chain.gen.pc = "update"
       /\ chain' # chain
       /\ ~ChainWrote
    \/ /\ bf.pc = "gen"
       /\ bf.gen.pc = "update"
       /\ bf' # bf
       /\ ~BackfillAggWrote

\* C21: an aggregation pass writes one report, that of its target slot, by
\* a merge that keeps the stored fields it does not compute; every other
\* report, the patients and the capacity configuration stay as they are, also
\* when the capacity has changed since the other reports were written.
C21_PassWritesOnlyItsSlot ==
    [][/\ UiWrote => OnlyMerged(uiPass.slotId)
       /\ ChainWrote => OnlyMerged(chain.gen.pass.slotId)
       /\ BackfillAggWrote => OnlyMerged(bf.gen.pass.slotId)
       /\ PassRead => reports' = reports
       /\ (UiWrote \/ ChainWrote \/ BackfillAggWrote \/ PassRead) =>
             patients' = patients /\ facility' = facility]_vars

\* a slot marked by the scheduler was aggregated again after the capacity
\* had changed, beside a report that holds the capacity of before
C21_ReaggregatedAfterCapacityChange ==
    \E a, b \in DOMAIN reports :
        /\ Has(reports[a], "totalBeds")
        /\ Has(reports[b], "totalBeds")
        /\ reports[a].totalBeds # reports[b].totalBeds
        /\ reports[b].totalBeds = facility.totalBeds
        /\ Has(reports[b], "scheduledRun")
        /\ reports[b].occupiedBeds = 1

\* ---------------------------------------------------- the backfill's claims
\* this step is the setDoc of { scheduledRun: true } that ends backfill's
\* generateScheduledReport
BackfillMarked ==
    /\ bf.pc = "gen"
    /\ bf.gen.pc = "mark"
    /\ bf'.pc = "done"
    /\ reports' # reports

\* the report holds the metrics of an aggregation
HasMetrics(doc) == RawFields \cup DerivedFields \subseteq DOMAIN doc

\* C22: backfill writes its forward-fill copies only to slots after the
\* latest report of its snapshot and before the current slot, never to a slot
\* of the snapshot; the report it creates for the current slot is the
\* aggregator's, holding the metrics of the live patients.
C22_CopiesInsideAggregatedCurrent ==
    [][/\ BackfillCopied =>
             /\ IdLess(lastDocId(DOMAIN bf.sortedDocs), bf.missingSlotId)
             /\ IdLess(bf.missingSlotId, bf.currentSlotId)
             /\ bf.missingSlotId \notin DOMAIN bf.sortedDocs
       /\ BackfillMarked =>
             /\ bf.gen.slotId = bf.currentSlotId
             /\ HasMetrics(reports'[bf.currentSlotId])]_vars

\* C23: a second run of backfill at the same current slot, no store operation
\* having failed and nothing else having written, makes no write: it ends on
\* its getDocs.  And the gap walk of any run moves on by a slot with every
\* copy, so it ends within the slots between the latest report and the
\* current slot.
C23_SecondRunWritesNothing ==
    [][/\ (ops' >= 2 /\ fails' = 0) => bf'.pc \in {"getDocs", "done"}
       /\ (BackfillCopied /\ bf'.pc = "setDoc") =>
             /\ IdLess(bf.missingSlotId, bf'.missingSlotId)
             /\ IdLess(bf'.missingSlotId, bf.currentSlotId)]_vars

\* a second run has ended after a first one that filled two slots and
\* aggregated the current one
C23_SecondRunEnded ==
    /\ ops = 2
    /\ fails = 0
    /\ bf = BackfillDone(FALSE)
    /\ Cardinality({k \in DOMAIN reports : IsAutoFilled(reports[k])}) >= 2
    /\ ScheduledReport(getCurrent6HourSlot)

\* C24: a store failure during a scheduled run is not thrown out of the run:
\* whichever read or write fails, a run that ends while the hook is mounted
\* arms the timer for the next slot boundary.
C24_RunEndsWithTimerArmed ==
    [][(chain.pc = "gen" /\ chain'.pc # "gen" /\ comp'.alive /\ comp'.mountedRef)
          => /\ chain'.pc = "timer"
             /\ chain'.deadline = nextSlotBoundary(now)]_vars

\* C25: with a date-only key in the collection, backfill does not raise and
\* keeps that key out of the date arithmetic: when slots are missing between
\* the latest well-formed slot and the current slot, the gap walk starts at the
\* slot after the latest well-formed one.
WellFormed(ids) == {k \in ids : k[2] # NoHour}

C25_GapWalkStartsAtLatestWellFormed ==
    [][(/\ bf.pc = "getDocs" /\ bf'.pc # "getDocs" /\ fails' = fails
        /\ WellFormed(DOMAIN reports) # DOMAIN reports
        /\ WellFormed(DOMAIN reports) # {}
        /\ slotIdToDate(LastId(WellFormed(DOMAIN reports))) + SIX_HOURS_MS
              < slotIdToDate(bf.currentSlotId))
          => /\ bf'.pc = "setDoc"
             /\ bf'.missingSlotId =
                   dateToSlotId(slotIdToDate(LastId(WellFormed(DOMAIN reports)))
                                + SIX_HOURS_MS)]_vars

\* C26: scheduledRun is true only while the most recent aggregation of the
\* report was a scheduler run: once a patient-triggered aggregation has written
\* a report, no store operation having failed, that report does not have
\* scheduledRun = true.
C26_PatientTriggeredIsNotScheduled ==
    [][(uiPass.pc = "setDoc" /\ uiPass'.pc = "resolved" /\ ~uiPass'.failed /\ fails' = 0)
          => ~(/\ Has(reports'[uiPass.slotId], "scheduledRun")
               /\ reports'[uiPass.slotId].scheduledRun)]_vars

\* C27: backfill's full-replace write never lands on a slot that holds a
\* report at the time of the write.
C27_CopyLandsOnEmptySlot ==
    [][(bf.pc = "setDoc" /\ bf' # bf /\ fails' = fails)
          => bf.missingSlotId \notin DOMAIN reports]_vars

\* C28: the series being without holes up to a slot at least two slots before
\* the current one when the dashboard mounts, once the scheduler's immediate
\* run, backfill and any patient-triggered aggregation have all completed
\* without error, every slot up to the current slot has a report.
AllCompleted ==
    /\ comp.alive
    /\ chain.pc = "timer"
    /\ bf.pc = "done" /\ ~bf.failed
    /\ ~InFlight(uiPass)

C28_MountClosesTheGap ==
    AllCompleted => SlotsUpTo(now) \subseteq DOMAIN reports

\* C29: no report exists for a slot whose window starts after the current
\* wall-clock time.
C29_NoReportForFutureSlot ==
    \A k \in DOMAIN reports : slotIdToDate(k) <= now

\* C30: every report document holds the aggregated metric fields: a failed
\* aggregation inside generateScheduledReport leaves no document that carries
\* the scheduledRun flag alone.
C30_NoReportWithoutMetrics ==
    \A k \in DOMAIN reports : HasMetrics(reports[k])

\* C9: once a store operation has failed during backfillMissingSlots, the
\* call does not throw and performs no further write in that invocation.
C9_NoWriteAfterFailure ==
    [][(bf.pc = "gen" /\ bf.gen.pc = "mark" /\ bf.gen.failed /\ bf' # bf)
          => (reports' = reports /\ bf'.pc = "done")]_vars

\* the scheduler effect for FacilityId has been torn down
TornDown == ~comp.alive \/ comp.facilityId # FacilityId

\* C10: after the scheduler hook is torn down, no timer armed for the old
\* facility remains pending and no further aggregation is started for it.
C10_NothingAfterTeardown ==
    /\ [](TornDown => chain.pc # "timer")
    /\ [][(TornDown' /\ chain.pc # "gen") => chain'.pc # "gen"]_vars

====
